---- MODULE Spec2Model ----
(***************************************************************************)
(* A model of linuxShell.c: the raw-mode line editor with its circular     *)
(* command history, the tokenizer, the builtin dispatcher, the redirection *)
(* resolver and the process launcher, as one state machine whose steps run *)
(* from one blocking call (read, waitpid) to the next.                     *)
(*                                                                         *)
(* C strings are sequences of one-character strings.  A character array is *)
(* a sequence over characters and NUL whose trailing NULs are left out     *)
(* (every position past the end of the sequence holds NUL).  A NULL        *)
(* pointer in the argument vector is the empty sequence: a token is never  *)
(* empty.                                                                  *)
(***************************************************************************)
EXTENDS Integers, Sequences, FiniteSets, TLC

VARIABLES
    history,            \* char history[BUFFER_SIZE][MAX_LENGTH], slot 0..BUFFER_SIZE-1 as C strings
    command_count,      \* int command_count
    next_command,       \* int next_command
    buffer_index,       \* int buffer_index (-1: not browsing)
    canonicalSettings,  \* struct termios canonicalSettings
    term,               \* the terminal's attributes (shared with every child)
    atexit_set,         \* whether restore_canonical_mode is registered with atexit
    input,              \* main's char input[MAX_LENGTH] (get_input's buf)
    count,              \* get_input's count
    seq0,               \* get_input's seq[0] between the two reads after ESC
    args,               \* main's char *args[MAX_ARGS], up to and including the sentinel
    argc,               \* main's argc
    background,         \* main's background
    cwd,                \* the shell's working directory
    pc,                 \* the shell's position: start, prompt, read, esc1, esc2, got_line, wait, exited
    ret,                \* the value get_input returned to main
    stdin,              \* the input stream: open, or eof (every read returns 0)
    children,           \* the forked processes not yet reaped
    awaiting,           \* the pids the shell still has to waitpid for, in order
    pipe_fds,           \* how many pipe descriptors the shell holds open
    out,                \* what the shell itself printed in the current cycle
    nlines,             \* how many times get_input has been entered
    typed,              \* what the reads of the current cycle have returned
    submitted           \* the commands handed to add_to_buffer one by one

vars == <<history, command_count, next_command, buffer_index, canonicalSettings,
          term, atexit_set, input, count, seq0, args, argc, background, cwd, pc,
          ret, stdin, children, awaiting, pipe_fds, out, nlines, typed,
          submitted>>

histvars == <<history, command_count, next_command, buffer_index>>
termvars == <<canonicalSettings, term, atexit_set>>
editvars == <<input, count, seq0>>
mainvars == <<args, argc, background, cwd>>
procvars == <<children, awaiting, pipe_fds>>

(***************************************************************************)
(* Program constants and the bounds of the model.                          *)
(***************************************************************************)
BUFFER_SIZE == 5
MAX_ARGS == 64
\* MAX_LENGTH is 1024 in the source; the model scales it down so that a line
\* can reach it.
MAX_LENGTH == 12
\* How many read cycles a session of Spec / of SpecBrowse has.
MaxLines == 2
MaxBrowseLines == 7
\* How many calls of add_to_buffer SpecHist makes.
MaxSubmitted == 7
\* How long a line SpecTok tokenizes.
MaxTokLen == 7
\* How many Up keys in a row a session types.
MaxRun == 6
\* How many plain lines an editing session starts with, and how many keys
\* its edited line has.
SeedLines == 6
MaxKeys == 4
\* How many lines a session of pipelines reads.
MaxPipeLines == 2

NUL == "NUL"
NoByte == "none"
NULLP == <<>>

Min(a, b) == IF a < b THEN a ELSE b

Slots == 0 .. (BUFFER_SIZE - 1)

(***************************************************************************)
(* Character arrays.                                                       *)
(***************************************************************************)
At(b, i) == IF i < Len(b) THEN b[i + 1] ELSE NUL

RECURSIVE Trim(_)
Trim(b) ==
    IF Len(b) > 0 /\ b[Len(b)] = NUL THEN Trim(SubSeq(b, 1, Len(b) - 1)) ELSE b

RECURSIVE Nuls(_)
Nuls(n) == IF n <= 0 THEN <<>> ELSE <<NUL>> \o Nuls(n - 1)

\* b[i] = c
Put(b, i, c) ==
    Trim(IF i < Len(b)
         THEN SubSeq(b, 1, i) \o <<c>> \o SubSeq(b, i + 2, Len(b))
         ELSE b \o Nuls(i - Len(b)) \o <<c>>)

\* the C string that starts at b[i]
RECURSIVE CStrFrom(_, _)
CStrFrom(b, i) ==
    IF At(b, i) = NUL THEN <<>> ELSE <<At(b, i)>> \o CStrFrom(b, i + 1)

CStr(b) == CStrFrom(b, 0)

\* strcpy(b, s)
StrCpy(b, s) ==
    Trim(s \o <<NUL>> \o SubSeq(b, Len(s) + 2, Len(b)))

IsPrefix(p, w) == Len(p) <= Len(w) /\ SubSeq(w, 1, Len(p)) = p

(***************************************************************************)
(* The history buffer: index arithmetic of get_input and add_to_buffer.    *)
(***************************************************************************)
Start(cc, nc) == IF cc < BUFFER_SIZE THEN 0 ELSE nc

MostRecent(cc, nc) == (Start(cc, nc) + cc - 1) % BUFFER_SIZE

\* the index before next_command without the wrap to BUFFER_SIZE - 1
LastIndexNoWrap(nc) == IF nc = 0 THEN 0 ELSE nc - 1

LastIndex(nc) == (nc - 1 + BUFFER_SIZE) % BUFFER_SIZE

\* The Up step on the cursor; moved is FALSE where the code takes "continue"
\* or finds no history.
\* (MoveBackWraps: the same without the clamp at the oldest entry)
MoveBackWraps(bi, cc, nc) ==
    IF cc > 0
    THEN IF bi = -1
         THEN [index |-> MostRecent(cc, nc), moved |-> TRUE]
         ELSE [index |-> (bi - 1 + BUFFER_SIZE) % BUFFER_SIZE, moved |-> TRUE]
    ELSE [index |-> bi, moved |-> FALSE]

MoveBack(bi, cc, nc) ==
    IF cc > 0
    THEN IF bi = -1
         THEN [index |-> MostRecent(cc, nc), moved |-> TRUE]
         ELSE IF bi = Start(cc, nc)
              THEN [index |-> bi, moved |-> FALSE]
              ELSE [index |-> (bi - 1 + BUFFER_SIZE) % BUFFER_SIZE, moved |-> TRUE]
    ELSE [index |-> bi, moved |-> FALSE]

\* The Down step on the cursor; reset is TRUE when it leaves browsing.
\* (MoveForwardNoReset: the same without the reset at the newest entry)
MoveForwardNoReset(bi, cc, nc) ==
    IF bi # -1
    THEN [index |-> (bi + 1) % BUFFER_SIZE, moved |-> TRUE, reset |-> FALSE]
    ELSE [index |-> bi, moved |-> FALSE, reset |-> FALSE]

MoveForward(bi, cc, nc) ==
    IF bi # -1
    THEN IF bi = MostRecent(cc, nc)
         THEN [index |-> -1, moved |-> TRUE, reset |-> TRUE]
         ELSE [index |-> (bi + 1) % BUFFER_SIZE, moved |-> TRUE, reset |-> FALSE]
    ELSE [index |-> bi, moved |-> FALSE, reset |-> FALSE]

\* The warm-up of get_input: 5 simulated Up steps, then 5 simulated Down steps.
RECURSIVE UpTimes(_, _, _, _)
UpTimes(n, bi, cc, nc) ==
    IF n = 0 THEN bi ELSE UpTimes(n - 1, MoveBack(bi, cc, nc).index, cc, nc)

RECURSIVE DownTimes(_, _, _, _)
DownTimes(n, bi, cc, nc) ==
    IF n = 0 THEN bi ELSE DownTimes(n - 1, MoveForward(bi, cc, nc).index, cc, nc)

\* a warm-up of 5 back-moves and only 4 forward-moves
WarmUpFourDowns(bi, cc, nc) == DownTimes(4, UpTimes(5, bi, cc, nc), cc, nc)

WarmUp(bi, cc, nc) == DownTimes(5, UpTimes(5, bi, cc, nc), cc, nc)

(***************************************************************************)
(* add_to_buffer, on the history as one record.                            *)
(***************************************************************************)
Hist ==
    [slots |-> history, cc |-> command_count, nc |-> next_command,
     bi |-> buffer_index]

\* a store that takes the slot from the count instead of next_command
StoreAtCount(h, cmd) ==
    [slots |-> [h.slots EXCEPT ![h.cc % BUFFER_SIZE] = cmd],
     nc |-> (h.nc + 1) % BUFFER_SIZE,
     cc |-> IF h.cc < BUFFER_SIZE THEN h.cc + 1 ELSE h.cc,
     bi |-> -1]

\* a store that counts every entry, also once the buffer is full
StoreUncapped(h, cmd) ==
    [slots |-> [h.slots EXCEPT ![h.nc] = cmd],
     nc |-> (h.nc + 1) % BUFFER_SIZE,
     cc |-> h.cc + 1,
     bi |-> -1]

\* strcpy into slot next_command, advance, count up to BUFFER_SIZE, reset cursor
Store(h, cmd) ==
    [slots |-> [h.slots EXCEPT ![h.nc] = cmd],
     nc |-> (h.nc + 1) % BUFFER_SIZE,
     cc |-> IF h.cc < BUFFER_SIZE THEN h.cc + 1 ELSE h.cc,
     bi |-> -1]

AddToBuffer(h, cmd) ==
    IF Len(cmd) = 0
    THEN h
    ELSE IF h.cc > 0 /\ h.slots[LastIndex(h.nc)] = cmd
         THEN h
         ELSE Store(h, cmd)

SetHist(h) ==
    /\ history' = h.slots
    /\ command_count' = h.cc
    /\ next_command' = h.nc
    /\ buffer_index' = h.bi

(***************************************************************************)
(* divide_args: strtok on the input array.                                 *)
(***************************************************************************)
RECURSIVE SkipDelims(_, _)
SkipDelims(b, p) == IF At(b, p) = " " THEN SkipDelims(b, p + 1) ELSE p

RECURSIVE TokenEnd(_, _)
TokenEnd(b, p) ==
    IF At(b, p) = NUL \/ At(b, p) = " " THEN p ELSE TokenEnd(b, p + 1)

\* strtok continuing at position p of b: the token (NULLP when there is none),
\* the array with the token's delimiter overwritten, and where to go on.
StrTok(b, p) ==
    LET s == SkipDelims(b, p)
        e == TokenEnd(b, s)
    IN  IF At(b, s) = NUL
        THEN [tok |-> NULLP, buf |-> b, next |-> s]
        ELSE [tok |-> SubSeq(b, s + 1, e),
              buf |-> IF At(b, e) = " " THEN Put(b, e, NUL) ELSE b,
              next |-> IF At(b, e) = " " THEN e + 1 ELSE e]

Amp == <<"&">>

RECURSIVE DivideLoop(_, _, _, _, _)
DivideLoop(t, i, as, bg, n) ==
    IF t.tok # NULLP /\ i < MAX_ARGS - 1
    THEN IF t.tok = Amp
         THEN DivideLoop(StrTok(t.buf, t.next), i, as, 1, n)
         ELSE DivideLoop(StrTok(t.buf, t.next), i + 1, Append(as, t.tok), bg, n)
    ELSE [args |-> Append(as, NULLP), argc |-> i, background |-> bg, input |-> t.buf]

\* a tokenizer that takes "&" for the flag only at the end of the line
DivideArgsLastAmp(b, bg) ==
    LET r == DivideLoop(StrTok(b, 0), 0, <<>>, bg, 0)
        s == CStr(b)
    IN  [r EXCEPT !.background =
            IF Len(s) > 0 /\ s[Len(s)] = "&" THEN 1 ELSE bg]

\* divide_args(input, args, &background) with *background = bg on entry
DivideArgs(b, bg) == DivideLoop(StrTok(b, 0), 0, <<>>, bg, 0)

(***************************************************************************)
(* handle_pipe's scan and handle_input_or_output.                          *)
(***************************************************************************)
Bar == <<"|">>
Gt == <<">">>
Lt == <<"<">>

\* args[j], 0-based
Arg(as, j) == as[j + 1]

\* the first j < n with args[j] in the set ops, or -1
RECURSIVE FirstOf(_, _, _, _)
FirstOf(as, n, ops, j) ==
    IF j >= n THEN -1
    ELSE IF Arg(as, j) \in ops THEN j
    ELSE FirstOf(as, n, ops, j + 1)

PipeIndex(as, n) == FirstOf(as, n, {Bar}, 0)

\* args[j] = NULL
CutAt(as, j) == [as EXCEPT ![j + 1] = NULLP]

\* the argument vector execvp sees at args + j: up to the first NULL
RECURSIVE Argv(_, _)
Argv(as, j) ==
    IF j >= Len(as) \/ Arg(as, j) = NULLP THEN <<>>
    ELSE <<Arg(as, j)>> \o Argv(as, j + 1)

\* a resolver that binds the first "<" and the first ">" alike
HandleInputOrOutputAll(as, n) ==
    LET j == FirstOf(as, n, {Gt, Lt}, 0)
        g == FirstOf(as, n, {Gt}, 0)
        l == FirstOf(as, n, {Lt}, 0)
    IN  IF j = -1
        THEN [args |-> as, input_file |-> NULLP, output_file |-> NULLP]
        ELSE [args |-> CutAt(as, j),
              input_file |-> IF l = -1 THEN NULLP ELSE Arg(as, l + 1),
              output_file |-> IF g = -1 THEN NULLP ELSE Arg(as, g + 1)]

HandleInputOrOutput(as, n) ==
    LET j == FirstOf(as, n, {Gt, Lt}, 0)
    IN  IF j = -1
        THEN [args |-> as, input_file |-> NULLP, output_file |-> NULLP]
        ELSE [args |-> CutAt(as, j),
              input_file |-> IF Arg(as, j) = Lt THEN Arg(as, j + 1) ELSE NULLP,
              output_file |-> IF Arg(as, j) = Gt THEN Arg(as, j + 1) ELSE NULLP]

(***************************************************************************)
(* Processes.  exit() runs the handlers registered with atexit, which a    *)
(* forked child inherits; _exit() runs none.                               *)
(***************************************************************************)
RawMode == [echo |-> FALSE, icanon |-> FALSE]

\* the terminal after exit() in a process whose atexit list is (or is not) set
\* (ExitSkipsHandlers: an exit that runs no handler, as _exit does)
ExitSkipsHandlers(t, registered, saved) == t

ExitRestores(t, registered, saved) == IF registered THEN saved ELSE t

Pids(cs) == {c.pid : c \in cs}

NewPid(cs) == CHOOSE n \in 1 .. (Cardinality(cs) + 1) : n \notin Pids(cs)

Child(cs, role, argv, infile, outfile) ==
    [pid |-> NewPid(cs), role |-> role, argv |-> argv, infile |-> infile,
     outfile |-> outfile, st |-> "forked"]

(***************************************************************************)
(* main's loop body after get_input has returned, on the record S of what  *)
(* it reads and writes; e are the outcomes of pipe, fork and chdir.        *)
(***************************************************************************)
S ==
    [hist |-> Hist, input |-> input, args |-> args, argc |-> argc,
     background |-> background, cwd |-> cwd, children |-> children,
     awaiting |-> awaiting, pipe_fds |-> pipe_fds, out |-> out, pc |-> pc,
     term |-> term]

\* every call succeeds, or one fails: after a failure the code makes no
\* further call in that cycle
AllOk == [pipe_ok |-> TRUE, fork1_ok |-> TRUE, fork2_ok |-> TRUE, chdir_ok |-> TRUE]

Outcomes ==
    { AllOk, [AllOk EXCEPT !.pipe_ok = FALSE], [AllOk EXCEPT !.fork1_ok = FALSE],
      [AllOk EXCEPT !.fork2_ok = FALSE], [AllOk EXCEPT !.chdir_ok = FALSE] }

Say(s, msg) == [s EXCEPT !.out = Append(s.out, msg)]

ExitWord == <<"e", "x", "i", "t">>
CdWord == <<"c", "d">>
BangBang == <<"!", "!">>

\* a dispatcher that reports "not handled" when cd has failed
HandleCdUnhandledOnError(s, e) ==
    IF Arg(s.args, 0) = ExitWord
    THEN [handled |-> 1,
          s |-> [s EXCEPT !.pc = "exited",
                          !.term = ExitRestores(s.term, atexit_set, canonicalSettings)]]
    ELSE IF Arg(s.args, 0) = CdWord
    THEN IF Arg(s.args, 1) = NULLP
         THEN [handled |-> 0, s |-> Say(s, "cd: expected argument")]
         ELSE IF e.chdir_ok
              THEN [handled |-> 1, s |-> [s EXCEPT !.cwd = Arg(s.args, 1)]]
              ELSE [handled |-> 0, s |-> Say(s, "chdir failed")]
    ELSE [handled |-> 0, s |-> s]

\* handle_cd_and_exit(args)
HandleCdAndExit(s, e) ==
    IF Arg(s.args, 0) = ExitWord
    THEN [handled |-> 1,
          s |-> [s EXCEPT !.pc = "exited",
                          !.term = ExitRestores(s.term, atexit_set, canonicalSettings)]]
    ELSE IF Arg(s.args, 0) = CdWord
    THEN IF Arg(s.args, 1) = NULLP
         THEN [handled |-> 1, s |-> Say(s, "cd: expected argument")]
         ELSE IF e.chdir_ok
              THEN [handled |-> 1, s |-> [s EXCEPT !.cwd = Arg(s.args, 1)]]
              ELSE [handled |-> 1, s |-> Say(s, "chdir failed")]
    ELSE [handled |-> 0, s |-> s]

\* a handle_pipe that does not wait when the line asked for the background
HandlePipeBackground(s, e) ==
    LET pi == PipeIndex(s.args, s.argc)
        s1 == [s EXCEPT !.args = CutAt(s.args, pi)]
        c1 == Child(s.children, "left", Argv(s1.args, 0), NULLP, NULLP)
        cs1 == s.children \cup {c1}
        c2 == Child(cs1, "right", Argv(s1.args, pi + 1), NULLP, NULLP)
    IN  IF pi = -1
        THEN [handled |-> 0, s |-> s]
        ELSE IF ~e.pipe_ok
        THEN [handled |-> 1, s |-> Say(s1, "pipe failed")]
        ELSE IF ~e.fork1_ok
        THEN [handled |-> 1,
              s |-> Say([s1 EXCEPT !.pipe_fds = s.pipe_fds + 2], "fork failed")]
        ELSE IF ~e.fork2_ok
        THEN [handled |-> 1,
              s |-> Say([s1 EXCEPT !.pipe_fds = s.pipe_fds + 2, !.children = cs1],
                        "fork failed")]
        ELSE IF s.background = 1
        THEN [handled |-> 1, s |-> [s1 EXCEPT !.children = cs1 \cup {c2}]]
        ELSE [handled |-> 1,
              s |-> [s1 EXCEPT !.children = cs1 \cup {c2},
                               !.awaiting = <<c1.pid, c2.pid>>,
                               !.pc = "wait"]]

\* handle_pipe(args, argc)
HandlePipe(s, e) ==
    LET pi == PipeIndex(s.args, s.argc)
        s1 == [s EXCEPT !.args = CutAt(s.args, pi)]
        c1 == Child(s.children, "left", Argv(s1.args, 0), NULLP, NULLP)
        cs1 == s.children \cup {c1}
        c2 == Child(cs1, "right", Argv(s1.args, pi + 1), NULLP, NULLP)
    IN  IF pi = -1
        THEN [handled |-> 0, s |-> s]
        ELSE IF ~e.pipe_ok
        THEN [handled |-> 1, s |-> Say(s1, "pipe failed")]
        ELSE IF ~e.fork1_ok
        THEN [handled |-> 1,
              s |-> Say([s1 EXCEPT !.pipe_fds = s.pipe_fds + 2], "fork failed")]
        ELSE IF ~e.fork2_ok
        THEN [handled |-> 1,
              s |-> Say([s1 EXCEPT !.pipe_fds = s.pipe_fds + 2, !.children = cs1],
                        "fork failed")]
        ELSE [handled |-> 1,
              s |-> [s1 EXCEPT !.children = cs1 \cup {c2},
                               !.awaiting = <<c1.pid, c2.pid>>,
                               !.pc = "wait"]]

\* a launcher that gives up the whole shell when fork fails
RunInstructionFatal(s, input_file, output_file, e) ==
    IF ~e.fork1_ok
    THEN [Say(s, "fork failed") EXCEPT !.pc = "exited"]
    ELSE [s EXCEPT !.children = s.children \cup
                       {Child(s.children, "single", Argv(s.args, 0), input_file, output_file)},
                   !.awaiting = <<NewPid(s.children)>>,
                   !.pc = "wait"]

\* run_instruction(args, background, input_file, output_file), the parent's side
RunInstruction(s, input_file, output_file, e) ==
    LET c == Child(s.children, "single", Argv(s.args, 0), input_file, output_file)
    IN  IF ~e.fork1_ok
        THEN Say(s, "fork failed")
        ELSE IF s.background = 0
        THEN [s EXCEPT !.children = s.children \cup {c},
                       !.awaiting = <<c.pid>>,
                       !.pc = "wait"]
        ELSE Say([s EXCEPT !.children = s.children \cup {c}],
                 "Process running in background")

\* main, from "Check for pipe" to the end of the loop body
Launch(s, e) ==
    LET p == HandlePipe(s, e)
        r == HandleInputOrOutput(s.args, s.argc)
    IN  IF p.handled = 1
        THEN p.s
        ELSE RunInstruction([s EXCEPT !.args = r.args], r.input_file, r.output_file, e)

\* a loop body that does not clear the background flag before tokenizing
ExecuteKeepsFlag(s, e) ==
    LET d == DivideArgs(s.input, s.background)
        s1 == [s EXCEPT !.input = d.input, !.args = d.args, !.argc = d.argc,
                        !.background = d.background]
        b == HandleCdAndExit(s1, e)
    IN  IF Arg(s1.args, 0) = NULLP
        THEN s1
        ELSE IF b.handled = 1
        THEN b.s
        ELSE Launch(s1, e)

\* main, from "background = 0" on
Execute(s, e) ==
    LET d == DivideArgs(s.input, 0)
        s1 == [s EXCEPT !.input = d.input, !.args = d.args, !.argc = d.argc,
                        !.background = d.background]
        b == HandleCdAndExit(s1, e)
    IN  IF Arg(s1.args, 0) = NULLP
        THEN s1
        ELSE IF b.handled = 1
        THEN b.s
        ELSE Launch(s1, e)

\* a recall that takes the oldest entry
RecallOldest(h) == h.slots[Start(h.cc, h.nc)]

\* main's test for "!!" on an empty history
\* (HistoryNeverEmpty: the test left out)
HistoryNeverEmpty(h) == FALSE

HistoryEmpty(h) == h.cc = 0

\* the entry "!!" runs again
Recall(h) == h.slots[LastIndex(h.nc)]

\* main's loop body after get_input returned r >= 0; every path ends in
\* "continue" (pc prompt) unless it exits or has children to wait for
MainBody(s0, e) ==
    LET s == [s0 EXCEPT !.pc = "prompt"]
        line == CStr(s.input)
    IN  IF Len(line) = 0
        THEN s
        ELSE IF line = BangBang
        THEN IF HistoryEmpty(s.hist)
             THEN Say(s, "No commands in history.")
             ELSE Execute(Say([s EXCEPT !.input = StrCpy(s.input, Recall(s.hist))],
                              "last command"), e)
        ELSE Execute([s EXCEPT !.hist = AddToBuffer(s.hist, line)], e)

(***************************************************************************)
(* What the terminal delivers.  A session is a set of scripts: sequences   *)
(* of read results that each end a read cycle, where a result is a byte,   *)
(* EOF (read returns 0) or ERR (read returns -1).  In every read cycle the *)
(* results so far are a prefix of one of the scripts.  Once a read has     *)
(* returned 0 the stream has ended and every later read returns 0.         *)
(***************************************************************************)
LF == "LF"
DEL == "DEL"
ESC == "ESC"
EOF == "EOF"
ERR == "ERR"
Up == <<ESC, "[", "A">>
Down == <<ESC, "[", "B">>

RECURSIVE Times(_, _)
Times(n, s) == IF n = 0 THEN <<>> ELSE s \o Times(n - 1, s)

Enter(s) == s \o <<LF>>

Scripts ==
    { Enter(<<"a">>), Enter(BangBang), Enter(ExitWord), Enter(CdWord),
      Enter(<<"c", "d", " ", "d">>), Enter(<<"a", " ", "&">>),
      Enter(<<"a", " ", "|", " ", "b">>),
      Enter(<<"s", " ", "<", " ", "f", " ", ">", " ", "g">>),
      Enter(<<"a", "b", DEL>>), Enter(Up), Enter(Up \o Down),
      Enter(<<ESC, "a", LF, "a">>),
      <<"a", "b", DEL, EOF>>, <<"a", ERR>>, <<EOF>>, <<ESC, EOF>>,
      <<ESC, ERR, "A", ERR>> }

BrowseScripts ==
    { Enter(<<"a">>), Enter(<<"b">>), Enter(BangBang), Enter(Up),
      Enter(Up \o Up), Enter(Up \o <<DEL>>), Enter(Up \o Up \o <<DEL>>),
      Enter(Times(BUFFER_SIZE, Up) \o <<DEL>>), Enter(<<ESC, "[", "C">>),
      <<Up[1], Up[2], EOF>>, <<"a", ERR>> }
    \cup { Enter(Times(i, Up) \o Times(i + 1, Down)) : i \in 1 .. MaxRun }

\* the results the scripts V allow next
NextBytes(V) ==
    IF stdin = "eof" THEN {EOF}
    ELSE {w[Len(typed) + 1] : w \in {v \in V : Len(v) > Len(typed) /\ IsPrefix(typed, v)}}

\* what an array element never written can hold
Indeterminate == {"[", "A", "B", "x"}

(***************************************************************************)
(* enable_noncanonical_mode                                                *)
(***************************************************************************)
Startup ==
    /\ pc = "start"
    /\ canonicalSettings' = term
    /\ atexit_set' = TRUE
    /\ term' = [term EXCEPT !.echo = FALSE, !.icanon = FALSE]
    /\ pc' = "prompt"
    /\ UNCHANGED <<histvars, editvars, mainvars, procvars, ret, stdin, out,
                   nlines, typed, submitted>>

(***************************************************************************)
(* print_prompt, then get_input up to its first read: memset and warm-up.  *)
(***************************************************************************)
BeginCycle(maxLines) ==
    /\ pc = "prompt"
    /\ nlines < maxLines
    /\ nlines' = nlines + 1
    /\ count' = 0
    /\ input' = <<>>
    /\ buffer_index' = WarmUp(buffer_index, command_count, next_command)
    /\ out' = <<>>
    /\ typed' = <<>>
    /\ pc' = "read"
    /\ UNCHANGED <<history, command_count, next_command, termvars, seq0,
                   mainvars, procvars, ret, stdin, submitted>>

(***************************************************************************)
(* get_input's loop, one read at a time.                                   *)
(***************************************************************************)
\* a normal character
ReadChar(V) ==
    /\ pc = "read"
    /\ \E c \in NextBytes(V) \ {LF, DEL, ESC, EOF, ERR} :
        /\ typed' = Append(typed, c)
        /\ IF count < MAX_LENGTH - 1
           THEN /\ input' = Put(input, count, c)
                /\ count' = count + 1
           ELSE UNCHANGED <<input, count>>
    /\ UNCHANGED <<histvars, termvars, seq0, mainvars, procvars, pc, ret,
                   stdin, out, nlines, submitted>>

\* '\n' or '\r'
ReadEnter(V) ==
    /\ pc = "read"
    /\ LF \in NextBytes(V)
    /\ typed' = Append(typed, LF)
    /\ input' = Put(input, count, NUL)
    /\ ret' = count
    /\ pc' = "got_line"
    /\ UNCHANGED <<histvars, termvars, count, seq0, mainvars, procvars,
                   stdin, out, nlines, submitted>>

\* DEL (127) or BS (8)
ReadBackspace(V) ==
    /\ pc = "read"
    /\ DEL \in NextBytes(V)
    /\ typed' = Append(typed, DEL)
    /\ count' = IF count > 0 THEN count - 1 ELSE count
    /\ UNCHANGED <<histvars, termvars, input, seq0, mainvars, procvars, pc,
                   ret, stdin, out, nlines, submitted>>

\* ESC (27)
ReadEsc(V) ==
    /\ pc = "read"
    /\ ESC \in NextBytes(V)
    /\ typed' = Append(typed, ESC)
    /\ pc' = "esc1"
    /\ UNCHANGED <<histvars, termvars, editvars, mainvars, procvars, ret,
                   stdin, out, nlines, submitted>>

\* read returned n <= 0: end of stream (0) or an error (-1)
ReadEnd(V) ==
    /\ pc = "read"
    /\ \E r \in NextBytes(V) \cap {EOF, ERR} :
        /\ typed' = Append(typed, r)
        /\ stdin' = IF r = EOF THEN "eof" ELSE stdin
    /\ ret' = count
    /\ pc' = "got_line"
    /\ UNCHANGED <<histvars, termvars, editvars, mainvars, procvars, out,
                   nlines, submitted>>

\* the read of seq[0]: only a return of 0 takes "continue"; after an error
\* seq[0] holds whatever the stack held
Esc1(V) ==
    /\ pc = "esc1"
    /\ \E r \in NextBytes(V) :
        /\ stdin' = IF r = EOF THEN "eof" ELSE stdin
        /\ typed' = Append(typed, r)
        /\ IF r = EOF
           THEN /\ pc' = "read"
                /\ seq0' = NoByte
           ELSE /\ pc' = "esc2"
                /\ seq0' \in (IF r = ERR THEN Indeterminate ELSE {r})
    /\ UNCHANGED <<histvars, termvars, input, count, mainvars, procvars, ret,
                   out, nlines, submitted>>

\* ESC [ A
KeyUp ==
    LET m == MoveBack(buffer_index, command_count, next_command)
    IN  IF m.moved
        THEN /\ buffer_index' = m.index
             /\ input' = StrCpy(input, history[m.index])
             /\ count' = Len(history[m.index])
        ELSE UNCHANGED <<buffer_index, input, count>>

\* a Down key that leaves "browsing" without emptying the line
KeyDownKeepsLine ==
    LET m == MoveForward(buffer_index, command_count, next_command)
    IN  IF m.reset
        THEN /\ buffer_index' = -1
             /\ UNCHANGED <<input, count>>
        ELSE IF m.moved
        THEN /\ buffer_index' = m.index
             /\ input' = StrCpy(input, history[m.index])
             /\ count' = Len(history[m.index])
        ELSE UNCHANGED <<buffer_index, input, count>>

\* ESC [ B
KeyDown ==
    LET m == MoveForward(buffer_index, command_count, next_command)
    IN  IF m.reset
        THEN /\ buffer_index' = -1
             /\ count' = 0
             /\ input' = Put(input, 0, NUL)
        ELSE IF m.moved
        THEN /\ buffer_index' = m.index
             /\ input' = StrCpy(input, history[m.index])
             /\ count' = Len(history[m.index])
        ELSE UNCHANGED <<buffer_index, input, count>>

\* the read of seq[1], then the key the two bytes spell
Esc2(V) ==
    /\ pc = "esc2"
    /\ \E r \in NextBytes(V) :
        /\ stdin' = IF r = EOF THEN "eof" ELSE stdin
        /\ typed' = Append(typed, r)
        /\ IF r = EOF
           THEN UNCHANGED <<buffer_index, input, count>>
           ELSE \E seq1 \in (IF r = ERR THEN Indeterminate ELSE {r}) :
                    IF seq0 = "[" /\ seq1 = "A" THEN KeyUp
                    ELSE IF seq0 = "[" /\ seq1 = "B" THEN KeyDown
                    ELSE UNCHANGED <<buffer_index, input, count>>
    /\ pc' = "read"
    /\ seq0' = NoByte
    /\ UNCHANGED <<history, command_count, next_command, termvars, mainvars,
                   procvars, ret, out, nlines, submitted>>

(***************************************************************************)
(* main's loop body once get_input has returned.                           *)
(***************************************************************************)
Dispatch ==
    /\ pc = "got_line"
    /\ \E e \in Outcomes :
        LET s == IF ret < 0
                 THEN [S EXCEPT !.pc = "exited",
                                !.term = ExitRestores(term, atexit_set, canonicalSettings)]
                 ELSE MainBody(S, e)
        IN  /\ SetHist(s.hist)
            /\ input' = s.input
            /\ args' = s.args
            /\ argc' = s.argc
            /\ background' = s.background
            /\ cwd' = s.cwd
            /\ children' = s.children
            /\ awaiting' = s.awaiting
            /\ pipe_fds' = s.pipe_fds
            /\ out' = s.out
            /\ pc' = s.pc
            /\ term' = s.term
    /\ UNCHANGED <<canonicalSettings, atexit_set, count, seq0, ret, stdin,
                   nlines, typed, submitted>>

(***************************************************************************)
(* The children, and waitpid.                                              *)
(***************************************************************************)
\* what a forked child can come to before its program runs
ChildOutcomes(c) ==
    {"exec_fail"}
    \cup (IF c.argv # <<>> THEN {"exec_ok"} ELSE {})
    \cup (IF c.role # "single" \/ c.infile # NULLP \/ c.outfile # NULLP
          THEN {"redirect_fail"} ELSE {})

\* run_instruction's child ends a failed open or dup2 with exit() and a failed
\* execvp with _exit(); handle_pipe's children end every failure with exit().
\* exit() runs restore_canonical_mode, whose tcsetattr acts on descriptor 0:
\* the terminal, except in a right child past its dup2, where it is the pipe
\* and the call fails.
ExitsThroughHandlers(c, o) ==
    \/ o = "redirect_fail"
    \/ o = "exec_fail" /\ c.role = "left"

ChildStart ==
    /\ \E c \in children :
        /\ c.st = "forked"
        /\ \E o \in ChildOutcomes(c) :
            /\ children' = (children \ {c}) \cup
                   {[c EXCEPT !.st = IF o = "exec_ok" THEN "running" ELSE "zombie"]}
            /\ term' = IF ExitsThroughHandlers(c, o)
                       THEN ExitRestores(term, atexit_set, canonicalSettings)
                       ELSE term
    /\ UNCHANGED <<histvars, canonicalSettings, atexit_set, editvars, mainvars,
                   awaiting, pipe_fds, pc, ret, stdin, out, nlines, typed,
                   submitted>>

\* the program a child runs ends
ChildExit ==
    /\ \E c \in children :
        /\ c.st = "running"
        /\ children' = (children \ {c}) \cup {[c EXCEPT !.st = "zombie"]}
    /\ UNCHANGED <<histvars, termvars, editvars, mainvars, awaiting, pipe_fds,
                   pc, ret, stdin, out, nlines, typed, submitted>>

\* waitpid(pid, NULL, 0) returns once the child has ended
WaitPid ==
    /\ pc = "wait"
    /\ awaiting # <<>>
    /\ \E c \in children :
        /\ c.pid = Head(awaiting)
        /\ c.st = "zombie"
        /\ children' = children \ {c}
    /\ awaiting' = Tail(awaiting)
    /\ pc' = IF Tail(awaiting) = <<>> THEN "prompt" ELSE "wait"
    /\ UNCHANGED <<histvars, termvars, editvars, mainvars, pipe_fds, ret,
                   stdin, out, nlines, typed, submitted>>

(***************************************************************************)
(* The shell.                                                              *)
(***************************************************************************)
Cooked == [echo |-> TRUE, icanon |-> TRUE]

Init ==
    /\ history = [i \in Slots |-> <<>>]
    /\ command_count = 0
    /\ next_command = 0
    /\ buffer_index = -1
    /\ canonicalSettings = RawMode
    /\ term \in {Cooked, [echo |-> FALSE, icanon |-> TRUE]}
    /\ atexit_set = FALSE
    /\ input = <<>>
    /\ count = 0
    /\ seq0 = NoByte
    /\ args = <<NULLP>>
    /\ argc = 0
    /\ background = 0
    /\ cwd = <<"/">>
    /\ pc = "start"
    /\ ret = 0
    /\ stdin = "open"
    /\ children = {}
    /\ awaiting = <<>>
    /\ pipe_fds = 0
    /\ out = <<>>
    /\ nlines = 0
    /\ typed = <<>>
    /\ submitted = <<>>

Session(V, maxLines) ==
    \/ Startup
    \/ BeginCycle(maxLines)
    \/ ReadChar(V)
    \/ ReadEnter(V)
    \/ ReadBackspace(V)
    \/ ReadEsc(V)
    \/ ReadEnd(V)
    \/ Esc1(V)
    \/ Esc2(V)
    \/ Dispatch
    \/ ChildStart
    \/ ChildExit
    \/ WaitPid

Next == Session(Scripts, MaxLines)

Spec == Init /\ [][Next]_vars

\* the same shell in a longer session of fewer lines and more browsing, so
\* that the history wraps around
NextBrowse == Session(BrowseScripts, MaxBrowseLines)

SpecBrowse == Init /\ [][NextBrowse]_vars

(***************************************************************************)
(* The shell on lines of plain commands and pipelines, with the processes  *)
(* scheduled fairly.  A pipeline child holds the write end of its pipe     *)
(* from fork on: the left child until it has ended (it is its standard     *)
(* output), the right child until it closes it, which it does before       *)
(* anything else; the parent has closed both ends before it waits.  A      *)
(* right-hand program that reads its input to the end ends once no process *)
(* holds the write end; every other program ends in its own time.          *)
(***************************************************************************)
PipeScripts ==
    { Enter(<<"a">>), Enter(<<"a", " ", "&">>),
      Enter(<<"a", " ", "|", " ", "b">>),
      Enter(<<"a", " ", "|", " ", "b", " ", "&">>) }

\* a right child that never closes its copy of the write end
HoldsWriteEndNoClose(c) == c.role \in {"left", "right"} /\ c.st # "zombie"

HoldsWriteEnd(c) ==
    \/ c.role = "left" /\ c.st # "zombie"
    \/ c.role = "right" /\ c.st = "forked"

Awaited(c) == \E k \in DOMAIN awaiting : awaiting[k] = c.pid

\* the processes holding the write end of the pipe the shell is waiting on
WriteEndHolders == {c \in children : Awaited(c) /\ HoldsWriteEnd(c)}

ProgramEndsWhenDone ==
    /\ \E c \in children :
        /\ c.st = "running"
        /\ c.role = "right" => WriteEndHolders = {}
        /\ children' = (children \ {c}) \cup {[c EXCEPT !.st = "zombie"]}
    /\ UNCHANGED <<histvars, termvars, editvars, mainvars, awaiting, pipe_fds,
                   pc, ret, stdin, out, nlines, typed, submitted>>

NextPipe ==
    \/ Startup
    \/ BeginCycle(MaxPipeLines)
    \/ ReadChar(PipeScripts)
    \/ ReadEnter(PipeScripts)
    \/ Dispatch
    \/ ChildStart
    \/ ChildExit
    \/ WaitPid

PipeFairness ==
    /\ WF_vars(ChildStart)
    /\ WF_vars(ProgramEndsWhenDone)
    /\ WF_vars(WaitPid)

SpecPipe == Init /\ [][NextPipe]_vars /\ PipeFairness

(***************************************************************************)
(* The shell in an editing session: SeedLines lines that are empty, "ab"   *)
(* or "b", then one line of any MaxKeys keys out of the letter "a",        *)
(* backspace, Up and Down, or a line longer than the buffer.               *)
(***************************************************************************)
Keys == {<<"a">>, <<DEL>>, Up, Down}

SeedScripts == {Enter(<<>>), Enter(<<"a", "b">>), Enter(<<"b">>)}

LongScripts ==
    { Enter(Times(MAX_LENGTH + 1, <<"a">>)),
      Enter(Times(MAX_LENGTH, <<"a">>) \o <<DEL, "b", "b">>) }

\* the whole keys read so far in this cycle
WholeKeys ==
    IF typed # <<>> /\ typed[Len(typed)] = ESC
    THEN SubSeq(typed, 1, Len(typed) - 1)
    ELSE IF Len(typed) >= 2 /\ typed[Len(typed) - 1] = ESC
    THEN SubSeq(typed, 1, Len(typed) - 2)
    ELSE typed

NumKeys(s) == Len(s) - 2 * Cardinality({i \in DOMAIN s : s[i] = ESC})

\* the scripts that go on from what has been read: Enter, or one more key
EditScripts ==
    IF nlines <= SeedLines
    THEN SeedScripts
    ELSE {Enter(WholeKeys)}
         \cup (IF NumKeys(WholeKeys) < MaxKeys
               THEN {Enter(WholeKeys \o k) : k \in Keys}
               ELSE {})
         \cup LongScripts

NextEdit ==
    \/ Startup
    \/ BeginCycle(SeedLines + 1)
    \/ ReadChar(EditScripts)
    \/ ReadEnter(EditScripts)
    \/ ReadBackspace(EditScripts)
    \/ ReadEsc(EditScripts)
    \/ Esc1(EditScripts)
    \/ Esc2(EditScripts)
    \/ Dispatch
    \/ ChildStart
    \/ ChildExit
    \/ WaitPid

SpecEdit == Init /\ [][NextEdit]_vars

(***************************************************************************)
(* add_to_buffer alone, called again and again from the empty history.     *)
(* The commands are "c", "cc", "ccc", ...; a call hands over the empty     *)
(* line, a command handed over before, or the next new one.                *)
(***************************************************************************)
HistCmd(i) == Times(i, <<"c">>)

Fresh == Cardinality({submitted[k] : k \in 1 .. Len(submitted)} \ {<<>>}) + 1

Submit(cmd) ==
    /\ Len(submitted) < MaxSubmitted
    /\ submitted' = Append(submitted, cmd)
    /\ SetHist(AddToBuffer(Hist, cmd))
    /\ UNCHANGED <<termvars, editvars, mainvars, procvars, pc, ret, stdin, out,
                   nlines, typed>>

NextHist == \E i \in 0 .. Fresh : Submit(HistCmd(i))

SpecHist == Init /\ [][NextHist]_vars

(***************************************************************************)
(* divide_args alone, as main calls it, on every short line.               *)
(***************************************************************************)
TokChars == {"l", "s", "-", " ", "&"}

TokLines == UNION {[1 .. n -> TokChars] : n \in 0 .. MaxTokLen}

InitTok ==
    /\ history = [i \in Slots |-> <<>>]
    /\ command_count = 0
    /\ next_command = 0
    /\ buffer_index = -1
    /\ canonicalSettings = Cooked
    /\ term = RawMode
    /\ atexit_set = TRUE
    /\ input \in TokLines
    /\ count = Len(input)
    /\ seq0 = NoByte
    /\ args = <<NULLP>>
    /\ argc = 0
    /\ background = 0
    /\ cwd = <<"/">>
    /\ pc = "tok"
    /\ ret = Len(input)
    /\ stdin = "open"
    /\ children = {}
    /\ awaiting = <<>>
    /\ pipe_fds = 0
    /\ out = <<>>
    /\ nlines = 1
    /\ typed = Enter(input)
    /\ submitted = <<>>

\* main: background = 0; argc = divide_args(input, args, &background);
Tokenize ==
    /\ pc = "tok"
    /\ LET d == DivideArgs(input, 0)
       IN  /\ input' = d.input
           /\ args' = d.args
           /\ argc' = d.argc
           /\ background' = d.background
    /\ pc' = "tokdone"
    /\ UNCHANGED <<histvars, termvars, count, seq0, cwd, procvars, ret, stdin,
                   out, nlines, typed, submitted>>

NextTok == Tokenize

SpecTok == InitTok /\ [][NextTok]_vars

(***************************************************************************)
(* Reference definitions the properties are stated with.                   *)
(***************************************************************************)
Last(q) == q[Len(q)]
Front(q) == SubSeq(q, 1, Len(q) - 1)
Range(q) == {q[k] : k \in 1 .. Len(q)}

\* a submitted sequence without its empty lines and without the lines equal
\* to the accepted line before them
RECURSIVE AcceptedOf(_)
AcceptedOf(q) ==
    IF q = <<>>
    THEN <<>>
    ELSE LET a == AcceptedOf(Front(q))
             x == Last(q)
         IN  IF x = <<>> \/ (a # <<>> /\ Last(a) = x) THEN a ELSE Append(a, x)

\* the history read from the oldest entry to the newest: from next_command
\* when command_count = BUFFER_SIZE, else from slot 0
Logical ==
    [k \in 1 .. command_count |->
        history[((IF command_count = BUFFER_SIZE THEN next_command ELSE 0) + k - 1)
                    % BUFFER_SIZE]]

\* the last n elements of q
LastN(q, n) == SubSeq(q, Len(q) - n + 1, Len(q))

(***************************************************************************)
(* C1.  After any sequence of add_to_buffer calls from the empty history,  *)
(* the history read oldest to newest is the last min(BUFFER_SIZE, m)       *)
(* elements of the accepted sequence (the submitted one without empty      *)
(* lines and immediate repeats), m being its length.                       *)
(***************************************************************************)
C1_HistoryIsLastAccepted ==
    LET a == AcceptedOf(submitted)
    IN  /\ command_count = Min(BUFFER_SIZE, Len(a))
        /\ Logical = LastN(a, Min(BUFFER_SIZE, Len(a)))

\* BUFFER_SIZE + 1 distinct commands went in: the last BUFFER_SIZE are held,
\* in order, and the first is gone
C1_Witness ==
    /\ Len(submitted) = BUFFER_SIZE + 1
    /\ Cardinality(Range(submitted) \ {<<>>}) = BUFFER_SIZE + 1
    /\ Logical = SubSeq(submitted, 2, BUFFER_SIZE + 1)
    /\ \A i \in Slots : history[i] # submitted[1]

(***************************************************************************)
(* C2.  add_to_buffer(cmd) with cmd empty, or equal to the entry appended  *)
(* last, changes no slot, nor command_count, nor next_command.             *)
(***************************************************************************)
C2_RepeatOrEmptyIsNoOp ==
    [][(/\ submitted' # submitted
        /\ LET cmd == Last(submitted')
               a == AcceptedOf(submitted)
           IN  cmd = <<>> \/ (a # <<>> /\ cmd = Last(a)))
       => UNCHANGED <<history, command_count, next_command>>]_vars

\* a repeat was handed to a full history whose next_command has wrapped to 0
C2_Witness ==
    /\ Len(submitted) >= 2
    /\ Last(submitted) # <<>>
    /\ AcceptedOf(Front(submitted)) # <<>>
    /\ Last(submitted) = Last(AcceptedOf(Front(submitted)))
    /\ command_count = BUFFER_SIZE
    /\ next_command = 0
    /\ Logical = LastN(AcceptedOf(submitted), BUFFER_SIZE)

(***************************************************************************)
(* The tokens of a line, by definition: its maximal runs of characters     *)
(* other than the space, from left to right.                               *)
(***************************************************************************)
TokenStarts(ln) ==
    {i \in 1 .. Len(ln) : ln[i] # " " /\ (i = 1 \/ ln[i - 1] = " ")}

TokenStop(ln, i) ==
    CHOOSE e \in i .. Len(ln) :
        /\ \A k \in i .. e : ln[k] # " "
        /\ e = Len(ln) \/ ln[e + 1] = " "

RECURSIVE Ascending(_)
Ascending(set) ==
    IF set = {}
    THEN <<>>
    ELSE LET m == CHOOSE x \in set : \A y \in set : x <= y
         IN  <<m>> \o Ascending(set \ {m})

RefTokens(ln) ==
    LET starts == Ascending(TokenStarts(ln))
    IN  [k \in 1 .. Len(starts) |-> SubSeq(ln, starts[k], TokenStop(ln, starts[k]))]

NotAmp(t) == t # Amp

\* the tokens that are not exactly "&"
RefArgs(ln) == SelectSeq(RefTokens(ln), NotAmp)

\* the line a cycle's reads spelled, when they were printable characters and Enter
TypedLine == Front(typed)

Oldest == IF command_count = BUFFER_SIZE THEN next_command ELSE 0

(***************************************************************************)
(* C3.  With s >= 1 entries and 1 <= K <= s: from "not browsing", K Up     *)
(* keys and then K Down keys leave the cursor "not browsing".              *)
(***************************************************************************)
C3_UpsThenDownsReturn ==
    \A K \in 1 .. MaxRun :
        (/\ pc = "read"
         /\ K <= command_count
         /\ typed = Times(K, Up) \o Times(K, Down))
        => buffer_index = -1

\* BUFFER_SIZE Ups and BUFFER_SIZE Downs over a history that has wrapped
C3_Witness ==
    /\ pc = "read"
    /\ command_count = BUFFER_SIZE
    /\ next_command = 1
    /\ typed = Times(BUFFER_SIZE, Up) \o Times(BUFFER_SIZE, Down)
    /\ buffer_index = -1

(***************************************************************************)
(* C4.  An Up key while the cursor is on the oldest entry changes nothing: *)
(* not the cursor, not the pending line.                                   *)
(***************************************************************************)
C4_UpAtOldestIsNoOp ==
    [][(/\ pc = "esc2"
        /\ seq0 = "["
        /\ typed' = Append(typed, "A")
        /\ command_count > 0
        /\ buffer_index = Oldest)
       => UNCHANGED <<buffer_index, input, count, history, command_count, next_command>>]_vars

\* one Up more than there are entries, over a history that has wrapped: the
\* cursor stays on the oldest entry, which is the pending line
C4_Witness ==
    /\ pc = "read"
    /\ command_count = BUFFER_SIZE
    /\ next_command = 1
    /\ typed = Times(BUFFER_SIZE + 1, Up)
    /\ buffer_index = next_command
    /\ CStr(input) = history[next_command]
    /\ count = Len(history[next_command])

(***************************************************************************)
(* C5.  The line "!!" on an empty history prints "No commands in           *)
(* history.", forks nothing, runs no builtin, leaves the history empty and *)
(* goes on to the next prompt.                                             *)
(***************************************************************************)
C5_RecallOnEmptyHistory ==
    [][(/\ pc = "got_line"
        /\ pc' # pc
        /\ CStr(input) = BangBang
        /\ command_count = 0)
       => /\ out' = <<"No commands in history.">>
          /\ pc' = "prompt"
          /\ UNCHANGED <<children, awaiting, cwd, term, history, command_count, next_command>>]_vars

C5_Witness ==
    /\ pc = "prompt"
    /\ typed = Enter(BangBang)
    /\ out = <<"No commands in history.">>
    /\ command_count = 0
    /\ children = {}

(***************************************************************************)
(* C6.  The line "!!" on a non-empty history tokenizes and runs the text   *)
(* of slot (next_command - 1) mod BUFFER_SIZE and appends nothing.         *)
(***************************************************************************)
C6_RecallRunsNewest ==
    [][(/\ pc = "got_line"
        /\ pc' # pc
        /\ CStr(input) = BangBang
        /\ command_count > 0)
       => LET entry == history[(next_command - 1) % BUFFER_SIZE]
          IN  /\ UNCHANGED <<history, command_count, next_command>>
              /\ Argv(args', 0) = RefArgs(entry)
              /\ \A c \in children' \ children : c.argv = RefArgs(entry)
              /\ pc' = "wait" =>
                    \E c \in children' \ children : c.pid = Head(awaiting')]_vars

\* "!!" once next_command has wrapped to 0: the entry of the last slot runs
C6_Witness ==
    /\ pc = "wait"
    /\ typed = Enter(BangBang)
    /\ command_count = BUFFER_SIZE
    /\ next_command = 0
    /\ \E c \in children :
        /\ c.pid = Head(awaiting)
        /\ c.argv = <<history[BUFFER_SIZE - 1]>>
        /\ c.argv # <<history[BUFFER_SIZE - 2]>>

(***************************************************************************)
(* C7.  For a line of fewer than MAX_ARGS tokens divide_args stores the    *)
(* tokens that are not exactly "&" in order, returns how many it stored,   *)
(* puts the NULL sentinel at that index, and sets the background flag iff  *)
(* some token is exactly "&".                                              *)
(***************************************************************************)
C7_DivideArgs ==
    (pc = "tokdone" /\ Len(RefTokens(TypedLine)) < MAX_ARGS)
    => LET toks == RefTokens(TypedLine)
           kept == RefArgs(TypedLine)
       IN  /\ args = Append(kept, NULLP)
           /\ argc = Len(kept)
           /\ Arg(args, argc) = NULLP
           /\ (background = 1) <=> (\E k \in DOMAIN toks : toks[k] = Amp)

\* "ls -l &" gives ["ls", "-l"], count 2, background set
C7_Witness ==
    /\ pc = "tokdone"
    /\ TypedLine = <<"l", "s", " ", "-", "l", " ", "&">>
    /\ args = << <<"l", "s">>, <<"-", "l">>, NULLP >>
    /\ argc = 2
    /\ background = 1

(***************************************************************************)
(* Lines of plain characters ended by Enter, and their redirection         *)
(* operators.                                                              *)
(***************************************************************************)
PlainLine ==
    /\ typed # <<>>
    /\ Last(typed) = LF
    /\ \A i \in 1 .. Len(typed) - 1 : typed[i] \notin {LF, DEL, ESC, EOF, ERR}
    /\ TypedLine # BangBang

Operators(toks) == {k \in DOMAIN toks : toks[k] \in {Lt, Gt}}

FirstOperator(toks) ==
    CHOOSE k \in Operators(toks) : \A j \in Operators(toks) : k <= j

\* the step that takes a line of two or more redirection operators and no "|"
SeveralRedirections ==
    /\ pc = "got_line"
    /\ pc' # pc
    /\ PlainLine
    /\ \A k \in DOMAIN RefArgs(TypedLine) : RefArgs(TypedLine)[k] # Bar
    /\ Cardinality(Operators(RefArgs(TypedLine))) >= 2

\* the files the first operator binds
FirstBinding(c, toks) ==
    LET f == FirstOperator(toks)
    IN  /\ c.infile = (IF toks[f] = Lt THEN toks[f + 1] ELSE NULLP)
        /\ c.outfile = (IF toks[f] = Gt THEN toks[f + 1] ELSE NULLP)

(***************************************************************************)
(* C8, as stated.  Only the first operator is honored, and the later       *)
(* operator and its target appear in the argument vector passed to the     *)
(* program.                                                                *)
(***************************************************************************)
C8_LaterOperatorsArePassed ==
    [][SeveralRedirections
       => LET toks == RefArgs(TypedLine)
              f == FirstOperator(toks)
          IN  \A c \in children' \ children :
                  /\ FirstBinding(c, toks)
                  /\ \A k \in Operators(toks) \ {f} :
                        /\ toks[k] \in Range(c.argv)
                        /\ k < Len(toks) => toks[k + 1] \in Range(c.argv)]_vars

(***************************************************************************)
(* C8, amended.  Only the first operator is honored; the argument vector   *)
(* passed to the program ends just before that operator, and the later     *)
(* operator and its target stay in args behind the NULL that replaced the  *)
(* first operator, where the program does not see them.                    *)
(***************************************************************************)
C8_ArgvEndsAtFirstOperator ==
    [][SeveralRedirections
       => LET toks == RefArgs(TypedLine)
              f == FirstOperator(toks)
          IN  /\ args' = SubSeq(toks, 1, f - 1) \o <<NULLP>>
                            \o SubSeq(toks, f + 1, Len(toks)) \o <<NULLP>>
              /\ \A c \in children' \ children :
                    /\ FirstBinding(c, toks)
                    /\ c.argv = SubSeq(toks, 1, f - 1)
              /\ pc' = "wait" =>
                    \E c \in children' \ children : c.pid = Head(awaiting')]_vars

\* "s < f > g": s runs with f as its input, no output file and no arguments
C8_Witness ==
    /\ pc = "wait"
    /\ TypedLine = <<"s", " ", "<", " ", "f", " ", ">", " ", "g">>
    /\ args = << <<"s">>, NULLP, <<"f">>, Gt, <<"g">>, NULLP >>
    /\ \E c \in children :
        /\ c.pid = Head(awaiting)
        /\ c.argv = << <<"s">> >>
        /\ c.infile = <<"f">>
        /\ c.outfile = NULLP

(***************************************************************************)
(* C9, as stated.  Once a cycle's read has returned end-of-stream or an    *)
(* error the shell terminates: the partial line is not executed and no     *)
(* further prompt is issued.                                               *)
(***************************************************************************)
C9_EndOfStreamTerminates ==
    (/\ typed # <<>>
     /\ Last(typed) \in {EOF, ERR}
     /\ pc \notin {"read", "esc1", "esc2", "got_line"})
    => pc = "exited"

\* the stream has ended on an empty line and the shell is about to prompt again
C9_Witness ==
    /\ typed = <<EOF>>
    /\ stdin = "eof"
    /\ ret = 0
    /\ pc = "prompt"
    /\ term = RawMode

(***************************************************************************)
(* C10.  Whenever the shell process has terminated, the terminal has the   *)
(* attributes saved at startup.                                            *)
(***************************************************************************)
C10_TerminalRestoredOnExit ==
    pc = "exited" => (atexit_set /\ term = canonicalSettings)

\* the exit builtin, with saved attributes that are not the all-on default
C10_Witness ==
    /\ pc = "exited"
    /\ typed = Enter(ExitWord)
    /\ canonicalSettings = [echo |-> FALSE, icanon |-> TRUE]
    /\ term = canonicalSettings

(***************************************************************************)
(* C11, as stated.  Whenever the shell is not inside handle_pipe's waits,  *)
(* it holds no pipe end open and has no pipeline child it did not await.   *)
(***************************************************************************)
C11_PipeLeavesNothingBehind ==
    pc # "wait" => (pipe_fds = 0 /\ \A c \in children : c.role = "single")

\* the second fork failed: both pipe ends stay open in the shell and the left
\* child, never awaited, is still there at the next prompt
C11_Witness ==
    /\ pc = "prompt"
    /\ TypedLine = <<"a", " ", "|", " ", "b">>
    /\ out = <<"fork failed">>
    /\ pipe_fds = 2
    /\ \E c \in children : c.role = "left"
    /\ \A c \in children : c.role # "right"

(***************************************************************************)
(* C12, as stated.  Whatever fails in a forked child, the terminal is in   *)
(* raw mode (echo and canonical processing off) whenever the shell reads   *)
(* input.                                                                  *)
(***************************************************************************)
C12_TerminalRawWhileReading ==
    pc \in {"read", "esc1", "esc2"} => term = RawMode

\* after "a | b" the shell reads its next line from a terminal that a failed
\* child has put back into the saved mode
C12_Witness ==
    /\ pc = "read"
    /\ nlines = 2
    /\ args = << <<"a">>, NULLP, <<"b">>, NULLP >>
    /\ children = {}
    /\ pipe_fds = 0
    /\ canonicalSettings = Cooked
    /\ term = Cooked

(***************************************************************************)
(* C13.  No failure of pipe, fork, dup2, open or exec ends the shell: a    *)
(* failure in the shell's own calls is reported and followed by the next   *)
(* prompt, a failure in a child leaves the shell where it is, and the      *)
(* shell process ends only on a line whose first token is "exit".          *)
(***************************************************************************)
Failures == {"pipe failed", "fork failed", "chdir failed"}

C13_FailuresNeverEndTheShell ==
    [][/\ (pc = "got_line" /\ Range(out') \cap Failures # {}) => pc' = "prompt"
       /\ (\E c \in children : c.st = "forked" /\ \E d \in children' :
                d.pid = c.pid /\ d.st = "zombie") => pc' = pc
       /\ (pc # "exited" /\ pc' = "exited") =>
             /\ pc = "got_line"
             /\ Arg(args', 0) = ExitWord
             /\ Range(out') \cap Failures = {}]_vars

\* a fork that failed for a single command: reported, and the shell is at its
\* next prompt
C13_Witness ==
    /\ pc = "prompt"
    /\ TypedLine = <<"a">>
    /\ out = <<"fork failed">>
    /\ children = {}
    /\ term = RawMode

(***************************************************************************)
(* C14.  A single command's child is awaited iff no token of its line is   *)
(* "&": without "&" the shell reaches the next prompt only once that child *)
(* has ended; with "&" it reports the child and goes straight to the next  *)
(* prompt.  Each line decides this afresh.                                 *)
(***************************************************************************)
HasAmp(ln) == \E k \in DOMAIN RefTokens(ln) : RefTokens(ln)[k] = Amp

HasBar(ln) == \E k \in DOMAIN RefTokens(ln) : RefTokens(ln)[k] = Bar

C14_WaitsIffForeground ==
    [][/\ (/\ pc = "got_line"
           /\ PlainLine
           /\ ~HasBar(TypedLine)
           /\ pc' # pc
           /\ children' # children)
          => \E c \in children' \ children :
                /\ children' = children \cup {c}
                /\ c.role = "single"
                /\ c.st = "forked"
                /\ IF HasAmp(TypedLine)
                   THEN /\ background' = 1
                        /\ pc' = "prompt"
                        /\ awaiting' = <<>>
                        /\ out' = <<"Process running in background">>
                   ELSE /\ background' = 0
                        /\ pc' = "wait"
                        /\ awaiting' = <<c.pid>>
       /\ (pc = "wait" /\ pc' # "wait")
          => /\ pc' = "prompt"
             /\ \E c \in children :
                   /\ c.pid = Head(awaiting)
                   /\ c.st = "zombie"
                   /\ c \notin children']_vars

\* "a" after "a &": the shell waits for the second child while the first,
\* never awaited, is still running
C14_Witness ==
    /\ pc = "wait"
    /\ nlines = 2
    /\ TypedLine = <<"a">>
    /\ background = 0
    /\ Cardinality(children) = 2
    /\ \E c \in children : c.pid # Head(awaiting) /\ c.st = "running"
    /\ \E c \in children : c.pid = Head(awaiting) /\ c.st = "forked"

(***************************************************************************)
(* C15.  A line whose first token is "cd" never spawns a child and ends at *)
(* the next prompt, whether the argument is missing, chdir succeeds or     *)
(* chdir fails; the working directory becomes the argument when one is     *)
(* given and chdir succeeds, and is unchanged otherwise.                   *)
(***************************************************************************)
C15_CdIsAlwaysHandled ==
    [][(/\ pc = "got_line"
        /\ pc' # pc
        /\ PlainLine
        /\ RefArgs(TypedLine) # <<>>
        /\ RefArgs(TypedLine)[1] = CdWord)
       => LET as == RefArgs(TypedLine)
          IN  /\ pc' = "prompt"
              /\ UNCHANGED <<children, awaiting, pipe_fds>>
              /\ IF Len(as) = 1
                 THEN cwd' = cwd /\ out' = <<"cd: expected argument">>
                 ELSE \/ cwd' = as[2] /\ out' = <<>>
                      \/ cwd' = cwd /\ out' = <<"chdir failed">>]_vars

\* "cd d" when chdir fails: reported, no child, same directory, next prompt
C15_Witness ==
    /\ pc = "prompt"
    /\ TypedLine = <<"c", "d", " ", "d">>
    /\ out = <<"chdir failed">>
    /\ cwd = <<"/">>
    /\ children = {}

(***************************************************************************)
(* C16, as stated.  After ESC only the byte "[" makes the editor wait for  *)
(* the final byte of a sequence; after any other byte it is back in its    *)
(* normal state, so the byte that follows is read as an ordinary key.      *)
(***************************************************************************)
C16_OnlyBracketContinues ==
    pc = "esc2" => (seq0 = "[" /\ Last(typed) = "[")

\* ESC, "a", Enter: the Enter was consumed as the second byte after ESC; the
\* line is still open and empty
C16_Witness ==
    /\ typed = <<ESC, "a", LF>>
    /\ pc = "read"
    /\ count = 0
    /\ input = <<>>
    /\ buffer_index = -1

(***************************************************************************)
(* C17.  The warm-up at the start of a read cycle leaves the cursor "not   *)
(* browsing", wherever the previous cycle left it, and changes no history  *)
(* slot, command_count or next_command.                                    *)
(***************************************************************************)
C17_WarmUpResetsCursor ==
    [][(pc = "prompt" /\ pc' = "read")
       => /\ buffer_index' = -1
          /\ UNCHANGED <<history, command_count, next_command>>]_vars

\* a cycle about to start with the cursor left on the oldest entry of a
\* full history, by a recalled line that was erased and entered empty
C17_Witness ==
    /\ pc = "prompt"
    /\ nlines < MaxBrowseLines
    /\ typed = Enter(Times(BUFFER_SIZE, Up) \o <<DEL>>)
    /\ command_count = BUFFER_SIZE
    /\ next_command = 0
    /\ buffer_index = next_command

(***************************************************************************)
(* C18.  For a line with "|" whose pipe and forks succeed, with or without *)
(* "&": both children exist before the shell waits for either, the shell   *)
(* holds no more descriptors than before when it starts to wait, and it    *)
(* reaches the next prompt only after both children have ended, in         *)
(* whichever order they end.                                               *)
(***************************************************************************)
C18_PipelineWaitsForBoth ==
    [][/\ (/\ pc = "got_line"
           /\ pc' # pc
           /\ PlainLine
           /\ HasBar(TypedLine)
           /\ Range(out') \cap Failures = {})
          => /\ pc' = "wait"
             /\ pipe_fds' = pipe_fds
             /\ \E l, r \in children' \ children :
                   /\ children' = children \cup {l, r}
                   /\ l.role = "left" /\ l.st = "forked"
                   /\ r.role = "right" /\ r.st = "forked"
                   /\ awaiting' = <<l.pid, r.pid>>
       /\ (pc = "wait" /\ awaiting' # awaiting)
          => /\ \E c \in children :
                   c.pid = Head(awaiting) /\ c.st = "zombie" /\ c \notin children'
             /\ awaiting' = Tail(awaiting)
             /\ pc' = (IF Tail(awaiting) = <<>> THEN "prompt" ELSE "wait")
       /\ (pc = "wait" /\ pc' # pc) => awaiting' # awaiting]_vars

\* "a | b &": the right child has ended first and the shell still waits for
\* both
C18_Witness ==
    /\ pc = "wait"
    /\ TypedLine = <<"a", " ", "|", " ", "b", " ", "&">>
    /\ background = 1
    /\ Len(awaiting) = 2
    /\ \E l, r \in children :
        /\ awaiting = <<l.pid, r.pid>>
        /\ l.role = "left" /\ l.st = "running"
        /\ r.role = "right" /\ r.st = "zombie"

(***************************************************************************)
(* C19.  A pipeline cannot deadlock on the write end of its pipe: while    *)
(* the right-hand program runs and the left child has ended, no process    *)
(* holds the write end, so a right-hand program that reads to the end of   *)
(* its input ends; and with programs that end once their input has ended,  *)
(* a shell that waits always comes back to the prompt.                     *)
(***************************************************************************)
LeftHasEnded ==
    \A l \in children : (l.role = "left" /\ Awaited(l)) => l.st = "zombie"

NthNewest(k) == Logical[command_count - k + 1]

RECURSIVE RefFold(_, _, _, _)
RefFold(bytes, i, line, back) ==
    IF i > Len(bytes) THEN line
    ELSE IF bytes[i] = ESC
    THEN IF bytes[i + 2] = "A"
         THEN IF back < command_count
              THEN RefFold(bytes, i + 3, NthNewest(back + 1), back + 1)
              ELSE RefFold(bytes, i + 3, line, back)
         ELSE IF back = 0
              THEN RefFold(bytes, i + 3, line, back)
              ELSE IF back = 1
              THEN RefFold(bytes, i + 3, <<>>, 0)
              ELSE RefFold(bytes, i + 3, NthNewest(back - 1), back - 1)
    ELSE IF bytes[i] = DEL
    THEN RefFold(bytes, i + 1, IF line = <<>> THEN line ELSE Front(line), back)
    ELSE RefFold(bytes, i + 1,
                 IF Len(line) < MAX_LENGTH - 1 THEN Append(line, bytes[i]) ELSE line,
                 back)

\* every ESC in the bytes starts an Up or a Down
ArrowsOnly(bytes) ==
    \A i \in DOMAIN bytes :
        bytes[i] = ESC =>
            /\ i + 2 <= Len(bytes)
            /\ bytes[i + 1] = "["
            /\ bytes[i + 2] \in {"A", "B"}

(***************************************************************************)
(* C20.  The line a read cycle hands over at Enter is the fold of the      *)
(* bytes it read: letters appended while there is room, backspace removing *)
(* the last character, Up and Down replacing the line with the entry the   *)
(* cursor reaches, Down past the newest entry emptying it; the returned    *)
(* count is its length, which is at most MAX_LENGTH - 1.                   *)
(***************************************************************************)
C20_LineIsFoldOfBytes ==
    (/\ pc = "got_line"
     /\ typed # <<>>
     /\ Last(typed) = LF
     /\ ArrowsOnly(TypedLine)
     /\ \A i \in DOMAIN TypedLine : TypedLine[i] \notin {LF, EOF, ERR})
    => LET line == RefFold(TypedLine, 1, <<>>, 0)
       IN  /\ CStr(input) = line
           /\ ret = Len(line)
           /\ Len(line) <= MAX_LENGTH - 1

\* over the entries "ab" and "b": Up gives "b", Up gives "ab", backspace
\* leaves "a", and the letter makes it "aa"
C20_Witness ==
    /\ pc = "got_line"
    /\ typed = Enter(Up \o Up \o <<DEL, "a">>)
    /\ Logical = << <<"a", "b">>, <<"b">> >>
    /\ CStr(input) = <<"a", "a">>
    /\ ret = 2

(***************************************************************************)
(* C21.  In every state of the shell: 0 <= command_count <= BUFFER_SIZE,   *)
(* 0 <= next_command < BUFFER_SIZE, next_command = command_count while the *)
(* buffer is not full (so both ways of computing the newest index agree),  *)
(* and buffer_index is -1 or the index of a slot that holds an entry.      *)
(***************************************************************************)
StoredSlots ==
    {(Oldest + k) % BUFFER_SIZE : k \in 0 .. command_count - 1}

C21_HistoryIndicesInRange ==
    /\ command_count \in 0 .. BUFFER_SIZE
    /\ next_command \in 0 .. BUFFER_SIZE - 1
    /\ command_count < BUFFER_SIZE => next_command = command_count
    /\ command_count > 0 =>
          (Oldest + command_count - 1) % BUFFER_SIZE
              = (next_command - 1 + BUFFER_SIZE) % BUFFER_SIZE
    /\ buffer_index = -1 \/ buffer_index \in StoredSlots
    /\ \A i \in StoredSlots : history[i] # <<>>

\* two Ups over a ring that has wrapped: the cursor has stepped back from
\* slot 0 to slot BUFFER_SIZE - 1
C21_Witness ==
    /\ pc = "read"
    /\ typed = Up \o Up
    /\ command_count = BUFFER_SIZE
    /\ next_command = 1
    /\ buffer_index = BUFFER_SIZE - 1
    /\ CStr(input) = history[BUFFER_SIZE - 1]

====
